---- MODULE Spec2Model ----
(***************************************************************************)
(* scorpion.js: the image metadata extractor.  A file is a path (a string, *)
(* kept as the sequence of its character codes) and a Buffer (a sequence   *)
(* of bytes 0..255, index 0 of the code being index 1 here).  analyzeImage *)
(* checks the file, selects a parser by extension and merges the parser's  *)
(* fields into the record.  The JPEG marker walk is modelled one loop      *)
(* iteration per step; the other parsers run in one step.                  *)
(***************************************************************************)
EXTENDS Integers, Sequences, FiniteSets, TLC

(***************************************************************************)
(* Strings, as sequences of character codes.                               *)
(***************************************************************************)
\* ".jpg", ".jpeg", ".png", ".gif", ".bmp"
VALID_EXTENSIONS ==
    { <<46, 106, 112, 103>>, <<46, 106, 112, 101, 103>>, <<46, 112, 110, 103>>,
      <<46, 103, 105, 102>>, <<46, 98, 109, 112>> }

ExtJpg == <<46, 106, 112, 103>>
ExtJpeg == <<46, 106, 112, 101, 103>>
ExtPng == <<46, 112, 110, 103>>
ExtGif == <<46, 103, 105, 102>>
ExtBmp == <<46, 98, 109, 112>>

\* The literals the parsers and the presentation layer compare with.
StrPNG == <<80, 78, 71>>
StrGIF == <<71, 73, 70>>
StrBM == <<66, 77>>
StrExif == <<69, 120, 105, 102>>
StrJPEG == <<74, 80, 69, 71>>
StrBMP == <<66, 77, 80>>
StrMake == <<77, 97, 107, 101>>
StrModel == <<77, 111, 100, 101, 108>>
StrDateTimeOriginal ==
    <<68, 97, 116, 101, 84, 105, 109, 101, 79, 114, 105, 103, 105, 110, 97, 108>>

\* String.prototype.toLowerCase / toUpperCase on the codes the inputs hold.
LowerChar(c) == IF c >= 65 /\ c <= 90 THEN c + 32 ELSE c
UpperChar(c) == IF c >= 97 /\ c <= 122 THEN c - 32 ELSE c
toLowerCase(s) == [i \in 1..Len(s) |-> LowerChar(s[i])]
toUpperCase(s) == [i \in 1..Len(s) |-> UpperChar(s[i])]

\* The positions of character c in s.
IndicesOf(s, c) == {i \in 1..Len(s) : s[i] = c}
MaxOf(S) == CHOOSE x \in S : \A y \in S : y <= x
MinOf(S) == CHOOSE x \in S : \A y \in S : x <= y

\* path.extname: from the last '.' of the last path component to the end;
\* empty when there is no '.' or the component starts with its only '.'.
extname(p) ==
    LET slashes == IndicesOf(p, 47)
        baseStart == IF slashes = {} THEN 1 ELSE MaxOf(slashes) + 1
        dots == {i \in IndicesOf(p, 46) : i >= baseStart}
    IN  IF dots = {} \/ MaxOf(dots) = baseStart THEN <<>>
        ELSE SubSeq(p, MaxOf(dots), Len(p))

(***************************************************************************)
(* Buffer primitives (Node's Buffer).                                      *)
(***************************************************************************)
\* What buffer[i] yields when i is outside the buffer.
Undefined == -1

\* buffer[i], i counted from 0.
At(buffer, i) == IF i >= 0 /\ i < Len(buffer) THEN buffer[i + 1] ELSE Undefined

\* ToInt32 of an operand of a bitwise operator: undefined becomes 0.
ToInt32(v) == IF v = Undefined THEN 0 ELSE v

\* buffer.slice(start, end), both clamped to the buffer.
slice(buffer, start, end) ==
    LET s == IF start > Len(buffer) THEN Len(buffer) ELSE start
        e == IF end > Len(buffer) THEN Len(buffer) ELSE end
    IN  IF e <= s THEN <<>> ELSE SubSeq(buffer, s + 1, e)

\* 'ascii' decoding unsets the high bit of every byte.
AsciiChar(b) == b % 128
toStringAscii(buffer, start, end) ==
    LET bytes == slice(buffer, start, end)
    IN  [i \in 1..Len(bytes) |-> AsciiChar(bytes[i])]

\* The default (utf8) decoding: a byte below 0x80 is its character, a byte
\* that starts no valid sequence decodes to U+FFFD.
ReplacementChar == 65533
Utf8Char(b) == IF b < 128 THEN b ELSE ReplacementChar
toStringUtf8(buffer) == [i \in 1..Len(buffer) |-> Utf8Char(buffer[i])]

\* The range check of the read* methods: a read of `width` bytes at
\* `offset` throws ERR_OUT_OF_RANGE unless it lies inside the buffer.
InRange(buffer, offset, width) == offset >= 0 /\ offset + width <= Len(buffer)

readUInt16BE(buffer, offset) == buffer[offset + 1] * 256 + buffer[offset + 2]
readUInt16Swapped(buffer, offset) == buffer[offset + 1] * 256 + buffer[offset + 2]
readUInt16LE(buffer, offset) == buffer[offset + 1] + buffer[offset + 2] * 256

\* A 32-bit value as sign and magnitude, the magnitude in two 16-bit halves
\* (JavaScript numbers hold every 32-bit value exactly).
Num(n) == [neg |-> FALSE, hi |-> 0, lo |-> n]

readUInt32BE(buffer, offset) ==
    [neg |-> FALSE,
     hi |-> buffer[offset + 1] * 256 + buffer[offset + 2],
     lo |-> buffer[offset + 3] * 256 + buffer[offset + 4]]

readUInt32LE(buffer, offset) ==
    [neg |-> FALSE,
     hi |-> buffer[offset + 4] * 256 + buffer[offset + 3],
     lo |-> buffer[offset + 2] * 256 + buffer[offset + 1]]

\* Two's complement: a raw value with bit 31 set stands for raw - 2^32.
readInt32LE(buffer, offset) ==
    LET raw == readUInt32LE(buffer, offset)
    IN  IF raw.hi < 32768 THEN raw
        ELSE IF raw.lo = 0
             THEN [neg |-> TRUE, hi |-> 65536 - raw.hi, lo |-> 0]
             ELSE [neg |-> TRUE, hi |-> 65535 - raw.hi, lo |-> 65536 - raw.lo]

MathAbs(n) == [n EXCEPT !.neg = FALSE]

(***************************************************************************)
(* Objects: functions from the keys present to their values.               *)
(***************************************************************************)
EmptyObject == [k \in {} |-> 0]
Keys(obj) == DOMAIN obj
\* Object.assign(target, source): the source's keys override.
ObjectAssign(target, source) ==
    [k \in DOMAIN target \cup DOMAIN source |->
        IF k \in DOMAIN source THEN source[k] ELSE target[k]]

(***************************************************************************)
(* The three patterns of parseJpegExif, matched against the decoded text.  *)
(***************************************************************************)
\* '.' matches every character but the line terminators.
LineTerminator(c) == c \in {10, 13, 8232, 8233}
\* What String.prototype.trim strips, among the decoded characters.
WhiteSpace(c) == c \in {9, 10, 11, 12, 13, 32}

trim(s) ==
    LET solid == {i \in 1..Len(s) : ~WhiteSpace(s[i])}
    IN  IF solid = {} THEN <<>> ELSE SubSeq(s, MinOf(solid), MaxOf(solid))

\* The tag, case-insensitively (flag i), then `nuls` NUL characters, at i.
TagAt(s, i, tag, nuls) ==
    /\ i + Len(tag) + nuls - 1 <= Len(s)
    /\ \A j \in 1..Len(tag) : UpperChar(s[i + j - 1]) = UpperChar(tag[j])
    /\ \A j \in 1..nuls : s[i + Len(tag) + j - 1] = 0

\* The ends q of a non-empty run p..q-1 of '.' characters followed by NUL.
LazyEnds(s, p) ==
    {q \in (p + 1)..Len(s) :
        s[q] = 0 /\ \A j \in p..(q - 1) : ~LineTerminator(s[j])}

\* /tag\0{nuls}(.+?)\0/i : the capture of the leftmost match, as a set with
\* no element when nothing matches.
MatchLazy(s, tag, nuls) ==
    LET starts == {i \in 1..Len(s) :
                      TagAt(s, i, tag, nuls) /\ LazyEnds(s, i + Len(tag) + nuls) # {}}
    IN  IF starts = {} THEN {}
        ELSE LET p == MinOf(starts) + Len(tag) + nuls
             IN  {SubSeq(s, p, MinOf(LazyEnds(s, p)) - 1)}

\* /tag\0(.{n})/i : exactly n '.' characters after the tag and one NUL.
MatchFixed(s, tag, n) ==
    LET starts == {i \in 1..Len(s) :
                      /\ TagAt(s, i, tag, 1)
                      /\ i + Len(tag) + n <= Len(s)
                      /\ \A j \in 1..n : ~LineTerminator(s[i + Len(tag) + j])}
    IN  IF starts = {} THEN {}
        ELSE LET p == MinOf(starts) + Len(tag) + 1
             IN  {SubSeq(s, p, p + n - 1)}

\* exif.<key> = match[1].trim() when the pattern matched.
Captured(key, match) ==
    IF match = {} THEN EmptyObject
    ELSE [k \in {key} |-> trim(CHOOSE c \in match : TRUE)]

DateLength == 19

\* Lines 47-61: the fields captured from the payload of the Exif segment.
ExifFields(exifData) ==
    LET text == toStringUtf8(exifData)
    IN  ObjectAssign(ObjectAssign(
            Captured("Make", MatchLazy(text, StrMake, 3)),
            Captured("Model", MatchLazy(text, StrModel, 2))),
            Captured("DateTaken", MatchFixed(text, StrDateTimeOriginal, DateLength)))

(***************************************************************************)
(* The one-step parsers.  A read that is out of range throws, and the      *)
(* catch of each parser returns the empty object.                          *)
(***************************************************************************)
\* The catch blocks of the four parsers: lines 84-86, 110-112, 141-143, 169-171.
JpegCatch == EmptyObject
PngCatchMessage == [error |-> "ERR_OUT_OF_RANGE"]
PngCatch == EmptyObject
GifCatch == EmptyObject
BmpCatch == EmptyObject

\* A parser that keeps what it read before the read that is out of range.
parsePngPartial(buffer) ==
    IF toStringAscii(buffer, 1, 4) # StrPNG THEN EmptyObject
    ELSE IF ~InRange(buffer, 16, 4) THEN EmptyObject
    ELSE IF ~InRange(buffer, 20, 4) THEN [Width |-> readUInt32BE(buffer, 16)]
    ELSE [Width |-> readUInt32BE(buffer, 16),
          Height |-> readUInt32BE(buffer, 20),
          BitDepth |-> At(buffer, 24),
          ColorType |-> At(buffer, 25)]

parsePngMetadata(buffer) ==
    IF toStringAscii(buffer, 1, 4) # StrPNG THEN EmptyObject
    ELSE IF ~InRange(buffer, 16, 4) \/ ~InRange(buffer, 20, 4) THEN PngCatch
    ELSE [Width |-> readUInt32BE(buffer, 16),
          Height |-> readUInt32BE(buffer, 20),
          BitDepth |-> At(buffer, 24),
          ColorType |-> At(buffer, 25)]

\* The three fields of the packed byte, lines 135-138.
ColorTableSize(packed) == 2 * 2 ^ (ToInt32(packed) % 8)
ColorResolutionUnmasked(packed) == (ToInt32(packed) \div 16) + 1
ColorResolution(packed) == ((ToInt32(packed) \div 16) % 8) + 1
GlobalColorTable(packed) == (ToInt32(packed) \div 128) % 2 # 0

parseGifMetadata(buffer) ==
    IF toStringAscii(buffer, 0, 3) # StrGIF THEN EmptyObject
    ELSE IF ~InRange(buffer, 6, 2) \/ ~InRange(buffer, 8, 2) THEN GifCatch
    ELSE [Version |-> toStringAscii(buffer, 3, 6),
          Width |-> Num(readUInt16LE(buffer, 6)),
          Height |-> Num(readUInt16LE(buffer, 8)),
          ColorTableSize |-> ColorTableSize(At(buffer, 10)),
          ColorResolution |-> ColorResolution(At(buffer, 10)),
          GlobalColorTable |-> GlobalColorTable(At(buffer, 10))]

\* Line 162 and line 163.
BmpWidth(buffer) == readInt32LE(buffer, 18)
BmpHeight(buffer) == MathAbs(readInt32LE(buffer, 22))

parseBmpMetadata(buffer) ==
    IF toStringAscii(buffer, 0, 2) # StrBM THEN EmptyObject
    ELSE IF \/ ~InRange(buffer, 2, 4) \/ ~InRange(buffer, 18, 4)
            \/ ~InRange(buffer, 22, 4) \/ ~InRange(buffer, 28, 2) THEN BmpCatch
    ELSE [FileSize |-> readUInt32LE(buffer, 2),
          Width |-> BmpWidth(buffer),
          Height |-> BmpHeight(buffer),
          BitsPerPixel |-> readUInt16LE(buffer, 28)]

(***************************************************************************)
(* The files the tool is run on.                                           *)
(***************************************************************************)
MaxTail == 4
MaxStamp == 1

\* "a.jpg", "a.JPG", "a.jpeg", "d/a.png", "a.gif", "a.bmp", "a.tiff",
\* "a.b/gif" (no extension), ".bmp" (a hidden file, no extension).
Paths ==
    { <<97, 46, 106, 112, 103>>, <<97, 46, 74, 80, 71>>,
      <<97, 46, 106, 112, 101, 103>>, <<100, 47, 97, 46, 112, 110, 103>>,
      <<97, 46, 103, 105, 102>>, <<97, 46, 98, 109, 112>>,
      <<97, 46, 116, 105, 102, 102>>, <<97, 46, 98, 47, 103, 105, 102>>,
      <<46, 98, 109, 112>> }

\* "GIF89a", 320 x 240, packed byte 0x91, background and aspect bytes.
GifFile == <<71, 73, 70, 56, 57, 97, 64, 1, 240, 0, 145, 0, 0>>

\* The PNG signature, the IHDR chunk header, 800 x 600, depth 8, type 2.
PngFile ==
    <<137, 80, 78, 71, 13, 10, 26, 10, 0, 0, 0, 13, 73, 72, 68, 82,
      0, 0, 3, 32, 0, 0, 2, 88, 8, 2, 0, 0, 0>>

\* "BM", declared size 70, width 100, height -50, 1 plane, 24 bits.
BmpFile ==
    <<66, 77, 70, 0, 0, 0, 0, 0, 0, 0, 54, 0, 0, 0, 40, 0, 0, 0,
      100, 0, 0, 0, 206, 255, 255, 255, 1, 0, 24, 0, 0, 0>>

\* SOI, an APP0 segment of length 4, then APP1 "Exif" of length 63 whose
\* payload holds Make "A", Model " B" and DateTimeOriginal.
JpegFile ==
    <<255, 216, 255, 224, 0, 4, 74, 70, 255, 225, 0, 63, 69, 120, 105, 102, 0, 0,
      77, 97, 107, 101, 0, 0, 0, 65, 0,
      77, 111, 100, 101, 108, 0, 0, 32, 66, 0>>
    \o StrDateTimeOriginal
    \o <<0, 50, 48, 50, 52, 58, 48, 49, 58, 48, 50, 32, 48, 51, 58, 48, 52, 58, 48, 53>>

\* SOI, an APP1 segment that is not Exif, a stray byte, then a short APP1
\* "Exif" segment (Make "Z") that ends the file.
XmpFile ==
    <<255, 216, 255, 225, 0, 4, 104, 116, 0, 255, 225, 0, 17, 69, 120, 105, 102, 0, 0,
      77, 65, 75, 69, 0, 0, 0, 90, 0>>

BaseFiles == {GifFile, PngFile, BmpFile, JpegFile, XmpFile}

\* The bytes a corrupted file may carry in place of byte b.
Corrupt(b) == {0, 255, (b + 128) % 256}

Byte == 0..255

Truncated(f, n) == SubSeq(f, 1, n)
Overwritten(f, i, b) == [f EXCEPT ![i] = b]

\* Marker streams after SOI, over the bytes that steer the walk.
WalkBytes == {255, 225, 0, 2}
RECURSIVE Tails(_)
Tails(n) ==
    IF n = 0 THEN {<<>>}
    ELSE LET shorter == Tails(n - 1)
         IN  shorter \cup {Append(t, b) : t \in {u \in shorter : Len(u) = n - 1},
                                          b \in WalkBytes}

\* The file contents: the well-formed files, every truncation of them,
\* every one-byte corruption, every packed byte of the GIF header, and
\* every short marker stream.
Buffers ==
    UNION {{Truncated(f, n) : n \in 0..Len(f)} : f \in BaseFiles}
    \cup UNION {UNION {{Overwritten(f, i, b) : b \in Corrupt(f[i])} : i \in 1..Len(f)}
                : f \in BaseFiles}
    \cup {Overwritten(GifFile, 11, p) : p \in Byte}
    \cup {<<255, 216>> \o t : t \in Tails(MaxTail)}

Stamps == 0..MaxStamp

\* The messages of the errors statSync and readFileSync throw.
AccessErrors == {"EACCES: permission denied", "EISDIR: illegal operation on a directory"}

(***************************************************************************)
(* analyzeImage and the marker walk of parseJpegExif, as a state machine.  *)
(***************************************************************************)
VARIABLES
    fileState,   \* the file on disk: "missing", "ok", or the error reading it throws
    pc,          \* "idle": between files; "walk": in the loop of parseJpegExif; "done"
    filePath,    \* the argument of analyzeImage
    buffer,      \* the bytes readFileSync returned
    stats,       \* what statSync returned
    offset,      \* the walk's offset
    exif,        \* the walk's result object
    iterations,  \* loop bodies of the walk run so far
    threw,       \* whether a read of the parser threw
    captured,    \* the fields exif held when the read threw
    invoked,     \* the parser analyzeImage called, "none" if it called none
    record       \* the record analyzeImage returned

vars == <<fileState, pc, filePath, buffer, stats, offset, exif, iterations, threw, captured,
          invoked, record>>

Init ==
    /\ fileState = "ok"
    /\ pc = "idle"
    /\ filePath = <<>>
    /\ buffer = <<>>
    /\ stats = [size |-> 0, birthtime |-> 0, mtime |-> 0]
    /\ offset = 0
    /\ exif = EmptyObject
    /\ iterations = 0
    /\ threw = FALSE
    /\ captured = EmptyObject
    /\ invoked = "none"
    /\ record = EmptyObject

\* Lines 181-184, 190-193 and 227-230.
ErrorRecord(path, message) == [file |-> path, error |-> message]

\* Line 188.
Extension(path) == toLowerCase(extname(path))

\* Line 205.
Format(ext) == toUpperCase(SubSeq(ext, 2, Len(ext)))

\* Lines 200-206.
BaseRecord(path, st, ext) ==
    [file |-> path, size |-> st.size, created |-> st.birthtime,
     modified |-> st.mtime, format |-> Format(ext)]

(***************************************************************************)
(* analyzeImage, lines 177-232.                                            *)
(***************************************************************************)
\* The record is returned: nothing of the walk is left running.
Return(rec) ==
    /\ pc' = "done"
    /\ record' = rec

\* Lines 180-185: the file does not exist.
AnalyzeMissing ==
    /\ pc = "idle"
    /\ \E path \in Paths :
        /\ fileState' = "missing"
        /\ filePath' = path
        /\ Return(ErrorRecord(path, "File does not exist"))
    /\ UNCHANGED <<buffer, stats, offset, exif, iterations, threw, captured, invoked>>

\* Lines 188-194: the file exists and its extension is not supported.
AnalyzeUnsupported ==
    /\ pc = "idle"
    /\ \E path \in Paths, state \in {"ok"} \cup AccessErrors :
        /\ Extension(path) \notin VALID_EXTENSIONS
        /\ fileState' = state
        /\ filePath' = path
        /\ Return(ErrorRecord(path, "Unsupported file type"))
    /\ UNCHANGED <<buffer, stats, offset, exif, iterations, threw, captured, invoked>>

\* Lines 197-198 and 226-231: statSync or readFileSync throws.
AnalyzeUnreadable ==
    /\ pc = "idle"
    /\ \E path \in Paths, message \in AccessErrors :
        /\ Extension(path) \in VALID_EXTENSIONS
        /\ fileState' = message
        /\ filePath' = path
        /\ Return(ErrorRecord(path, message))
    /\ UNCHANGED <<buffer, stats, offset, exif, iterations, threw, captured, invoked>>

\* Lines 197-206: the file was read; its state before the parser runs.
Loaded(path, bytes, created, modified, parser) ==
    /\ fileState' = "ok"
    /\ filePath' = path
    /\ buffer' = bytes
    /\ stats' = [size |-> Len(bytes), birthtime |-> created, mtime |-> modified]
    /\ invoked' = parser

\* Lines 214-216.
AnalyzePng ==
    /\ pc = "idle"
    /\ \E path \in Paths, bytes \in Buffers, created \in Stamps, modified \in Stamps :
        /\ created <= modified
        /\ Extension(path) = ExtPng
        /\ Loaded(path, bytes, created, modified, "png")
        /\ Return(ObjectAssign(BaseRecord(path, stats', Extension(path)),
                               parsePngMetadata(bytes)))
    /\ UNCHANGED <<offset, exif, iterations, threw, captured>>

\* Lines 217-219.
AnalyzeGif ==
    /\ pc = "idle"
    /\ \E path \in Paths, bytes \in Buffers, created \in Stamps, modified \in Stamps :
        /\ created <= modified
        /\ Extension(path) = ExtGif
        /\ Loaded(path, bytes, created, modified, "gif")
        /\ Return(ObjectAssign(BaseRecord(path, stats', Extension(path)),
                               parseGifMetadata(bytes)))
    /\ UNCHANGED <<offset, exif, iterations, threw, captured>>

\* Lines 220-222.
AnalyzeBmp ==
    /\ pc = "idle"
    /\ \E path \in Paths, bytes \in Buffers, created \in Stamps, modified \in Stamps :
        /\ created <= modified
        /\ Extension(path) = ExtBmp
        /\ Loaded(path, bytes, created, modified, "bmp")
        /\ Return(ObjectAssign(BaseRecord(path, stats', Extension(path)),
                               parseBmpMetadata(bytes)))
    /\ UNCHANGED <<offset, exif, iterations, threw, captured>>

(***************************************************************************)
(* parseJpegExif, lines 27-87, called at lines 210-213.                    *)
(***************************************************************************)
\* Line 32: the SOI marker.
HasSoi(bytes) == At(bytes, 0) = 255 /\ At(bytes, 1) = 216

\* parseJpegExif returned `fields`: analyzeImage merges them and returns.
JpegReturn(fields) ==
    Return(ObjectAssign(BaseRecord(filePath, stats, Extension(filePath)), fields))

\* Lines 29-37: the call, up to the first test of the loop condition.
AnalyzeJpeg ==
    /\ pc = "idle"
    /\ \E path \in Paths, bytes \in Buffers, created \in Stamps, modified \in Stamps :
        /\ created <= modified
        /\ Extension(path) \in {ExtJpg, ExtJpeg}
        /\ Loaded(path, bytes, created, modified, "jpeg")
        /\ IF HasSoi(bytes)
           THEN /\ pc' = "walk"
                /\ offset' = 2
                /\ UNCHANGED record
           ELSE /\ Return(ObjectAssign(BaseRecord(path, stats', Extension(path)),
                                       EmptyObject))
                /\ UNCHANGED offset
    /\ UNCHANGED <<exif, iterations, threw, captured>>

\* Line 38.
InLoop == pc = "walk" /\ offset < Len(buffer) - 1
\* Line 39.
AtApp1 == At(buffer, offset) = 255 /\ At(buffer, offset + 1) = 225
\* Line 43.
IsExif == toStringUtf8(slice(buffer, offset + 4, offset + 8)) = StrExif
\* Line 44.
ExifData(segmentLength) == slice(buffer, offset + 10, offset + segmentLength + 2)
\* Line 64.
DimensionsLoose(bytes, at) == at + 20 < Len(bytes)
DimensionsGuard(bytes, at) == at + 30 < Len(bytes)
\* Line 72.
SkipLengthOnly(at, segmentLength) == at + segmentLength
SkipApp1(at, segmentLength) == at + 2 + segmentLength

\* Line 40 throws: the segment length is not inside the buffer.
WalkLengthThrows ==
    /\ InLoop /\ AtApp1
    /\ ~InRange(buffer, offset + 2, 2)
    /\ iterations' = iterations + 1
    /\ threw' = TRUE
    /\ captured' = exif
    /\ JpegReturn(JpegCatch)
    /\ UNCHANGED <<fileState, filePath, buffer, stats, offset, exif, invoked>>

\* Lines 40-69: the first APP1 segment tagged Exif; the walk ends here.
WalkExif ==
    /\ InLoop /\ AtApp1
    /\ InRange(buffer, offset + 2, 2)
    /\ IsExif
    /\ iterations' = iterations + 1
    /\ LET fields == ObjectAssign(exif, ExifFields(ExifData(readUInt16BE(buffer, offset + 2))))
       IN  IF ~DimensionsGuard(buffer, offset)
           THEN /\ exif' = fields
                /\ JpegReturn(fields)
                /\ UNCHANGED <<threw, captured>>
           ELSE IF ~InRange(buffer, offset + 20, 2)
           THEN /\ threw' = TRUE
                /\ captured' = fields
                /\ JpegReturn(JpegCatch)
                /\ UNCHANGED exif
           ELSE IF ~InRange(buffer, offset + 22, 2)
           THEN /\ threw' = TRUE
                /\ captured' = ObjectAssign(fields,
                                   [Width |-> Num(readUInt16BE(buffer, offset + 20))])
                /\ JpegReturn(JpegCatch)
                /\ UNCHANGED exif
           ELSE /\ exif' = ObjectAssign(fields,
                               [Width |-> Num(readUInt16BE(buffer, offset + 20)),
                                Height |-> Num(readUInt16BE(buffer, offset + 22))])
                /\ JpegReturn(exif')
                /\ UNCHANGED <<threw, captured>>
    /\ UNCHANGED <<fileState, filePath, buffer, stats, offset, invoked>>

\* Lines 40-43 and 72: an APP1 segment that is not Exif is skipped.
WalkSkipApp1 ==
    /\ InLoop /\ AtApp1
    /\ InRange(buffer, offset + 2, 2)
    /\ ~IsExif
    /\ offset' = SkipApp1(offset, readUInt16BE(buffer, offset + 2))
    /\ iterations' = iterations + 1
    /\ UNCHANGED <<pc, fileState, filePath, buffer, stats, exif, threw, captured, invoked, record>>

\* Lines 73-77: another marker is skipped by its length when it has one.
WalkSkipMarker ==
    /\ InLoop /\ ~AtApp1
    /\ At(buffer, offset) = 255
    /\ offset' = IF offset + 2 < Len(buffer) - 1
                 THEN offset + 2 + readUInt16BE(buffer, offset + 2)
                 ELSE offset + 2
    /\ iterations' = iterations + 1
    /\ UNCHANGED <<pc, fileState, filePath, buffer, stats, exif, threw, captured, invoked, record>>

\* Lines 78-80: a byte that starts no marker.
WalkResync ==
    /\ InLoop /\ ~AtApp1
    /\ At(buffer, offset) # 255
    /\ offset' = offset + 1
    /\ iterations' = iterations + 1
    /\ UNCHANGED <<pc, fileState, filePath, buffer, stats, exif, threw, captured, invoked, record>>

\* Lines 38 and 83: the loop condition fails and exif is returned.
WalkEnd ==
    /\ pc = "walk"
    /\ ~(offset < Len(buffer) - 1)
    /\ JpegReturn(exif)
    /\ UNCHANGED <<fileState, filePath, buffer, stats, offset, exif, iterations, threw, captured,
                   invoked>>

\* Lines 305-308: main prints the record and turns to the next file.
NextFile ==
    /\ pc = "done"
    /\ pc' = "idle"
    /\ fileState' = "ok"
    /\ filePath' = <<>>
    /\ buffer' = <<>>
    /\ stats' = [size |-> 0, birthtime |-> 0, mtime |-> 0]
    /\ offset' = 0
    /\ exif' = EmptyObject
    /\ iterations' = 0
    /\ threw' = FALSE
    /\ captured' = EmptyObject
    /\ invoked' = "none"
    /\ record' = EmptyObject

Next ==
    \/ AnalyzeMissing
    \/ AnalyzeUnsupported
    \/ AnalyzeUnreadable
    \/ AnalyzePng
    \/ AnalyzeGif
    \/ AnalyzeBmp
    \/ AnalyzeJpeg
    \/ WalkLengthThrows
    \/ WalkExif
    \/ WalkSkipApp1
    \/ WalkSkipMarker
    \/ WalkResync
    \/ WalkEnd
    \/ NextFile

Spec == Init /\ [][Next]_vars

(***************************************************************************)
(* What the claims speak of.                                               *)
(***************************************************************************)
BaseKeys == {"file", "size", "created", "modified", "format"}
\* The fields the parser contributed to the returned record.
ParsedKeys == Keys(record) \ BaseKeys
Analyzed(parser) == pc = "done" /\ invoked = parser

\* The buffer starts with the format's signature, byte for byte.
ExactSignature(parser) ==
    CASE parser = "jpeg" -> Len(buffer) >= 2 /\ SubSeq(buffer, 1, 2) = <<255, 216>>
      [] parser = "png" -> Len(buffer) >= 4 /\ SubSeq(buffer, 2, 4) = StrPNG
      [] parser = "gif" -> Len(buffer) >= 3 /\ SubSeq(buffer, 1, 3) = StrGIF
      [] parser = "bmp" -> Len(buffer) >= 2 /\ SubSeq(buffer, 1, 2) = StrBM

\* The parser's own signature check passed.
PassedSignature(parser) ==
    CASE parser = "jpeg" -> HasSoi(buffer)
      [] parser = "png" -> toStringAscii(buffer, 1, 4) = StrPNG
      [] parser = "gif" -> toStringAscii(buffer, 0, 3) = StrGIF
      [] parser = "bmp" -> toStringAscii(buffer, 0, 2) = StrBM

\* Field `key` is in the record only if the buffer has at least n bytes.
Needs(key, n) == key \in ParsedKeys => Len(buffer) >= n

\* C1: whatever the bytes and the length of the buffer, a field is in the
\* result of a parser only if every byte at its documented offset lies
\* inside the buffer.
C1_BoundsSafety ==
    /\ Analyzed("png") =>
        /\ Needs("Width", 20) /\ Needs("Height", 24)
        /\ Needs("BitDepth", 25) /\ Needs("ColorType", 26)
    /\ Analyzed("gif") =>
        /\ Needs("Version", 6) /\ Needs("Width", 8) /\ Needs("Height", 10)
        /\ Needs("ColorTableSize", 11) /\ Needs("ColorResolution", 11)
        /\ Needs("GlobalColorTable", 11)
    /\ Analyzed("bmp") =>
        /\ Needs("FileSize", 6) /\ Needs("Width", 22) /\ Needs("Height", 26)
        /\ Needs("BitsPerPixel", 30)
    /\ Analyzed("jpeg") =>
        /\ Needs("Width", offset + 22) /\ Needs("Height", offset + 24)
        /\ Needs("Make", offset + 19) /\ Needs("Model", offset + 19)
        /\ Needs("DateTaken", offset + 46)

\* C2: a buffer whose leading bytes are not exactly the signature of the
\* format yields no field from that format's parser, also when the bytes
\* differ from the signature only in their high bit.
C2_SignatureGating ==
    \A parser \in {"jpeg", "png", "gif", "bmp"} :
        Analyzed(parser) /\ ~ExactSignature(parser) => ParsedKeys = {}

\* C3: a missing file, an unsupported extension and a failing stat/read
\* give a record of `file` and `error` alone, with the message of the first
\* failing check and no parser called; a readable file with a supported
\* extension gives the base attributes and `format` and never `error`,
\* whatever the parser met.
C3_ErrorClasses ==
    pc = "done" =>
        LET supported == Extension(filePath) \in VALID_EXTENSIONS
            message == IF fileState = "missing" THEN "File does not exist"
                       ELSE IF ~supported THEN "Unsupported file type"
                       ELSE fileState
        IN  IF fileState = "ok" /\ supported
            THEN /\ "error" \notin Keys(record)
                 /\ BaseKeys \subseteq Keys(record)
                 /\ invoked # "none"
                 /\ record.file = filePath
                 /\ record.size = Len(buffer)
            ELSE /\ Keys(record) = {"file", "error"}
                 /\ record.file = filePath
                 /\ record.error = message
                 /\ invoked = "none"

C3_Witness ==
    /\ Analyzed("png")
    /\ fileState = "ok"
    /\ ~ExactSignature("png")
    /\ Keys(record) = BaseKeys

\* C4: a record without `error` has a format among JPEG, PNG, GIF, BMP,
\* and a file the JPEG parser handled has format JPEG.
C4_FormatEnum ==
    pc = "done" /\ "error" \notin Keys(record) =>
        /\ record.format \in {StrJPEG, StrPNG, StrGIF, StrBMP}
        /\ invoked = "jpeg" => record.format = StrJPEG

\* C5: width and height, when present, are not negative, and the height of
\* a BMP is the absolute value of the int32 stored at offset 22.
C5_Unsigned ==
    pc = "done" =>
        /\ "Width" \in ParsedKeys => ~record.Width.neg
        /\ "Height" \in ParsedKeys => ~record.Height.neg
        /\ invoked = "bmp" /\ "Height" \in ParsedKeys =>
              /\ record.Height.hi = readInt32LE(buffer, 22).hi
              /\ record.Height.lo = readInt32LE(buffer, 22).lo

\* C6: for a buffer of 11 bytes or more that passes the GIF signature
\* check, with packed byte p = 128*b7 + 16*r + 8*b3 + t at offset 10:
\* hasGlobalColorTable is b7, colorResolution is r + 1, colorTableSize is
\* 2^(t+1), and flipping b3 changes none of the three.
C6_PackedByte ==
    Analyzed("gif") /\ PassedSignature("gif") /\ Len(buffer) >= 11 =>
        \A b7 \in 0..1, r \in 0..7, b3 \in 0..1, t \in 0..7 :
            buffer[11] = 128 * b7 + 16 * r + 8 * b3 + t =>
                LET flipped == parseGifMetadata(
                        Overwritten(buffer, 11, 128 * b7 + 16 * r + 8 * (1 - b3) + t))
                IN  /\ record.GlobalColorTable = (b7 = 1)
                    /\ record.ColorResolution = r + 1
                    /\ record.ColorResolution \in 1..8
                    /\ record.ColorTableSize = 2 ^ (t + 1)
                    /\ record.ColorTableSize \in {2, 4, 8, 16, 32, 64, 128, 256}
                    /\ flipped.GlobalColorTable = record.GlobalColorTable
                    /\ flipped.ColorResolution = record.ColorResolution
                    /\ flipped.ColorTableSize = record.ColorTableSize

C6_Witness ==
    /\ Analyzed("gif") /\ PassedSignature("gif")
    /\ Len(buffer) >= 11 /\ buffer[11] = 255
    /\ record.ColorTableSize = 256 /\ record.ColorResolution = 8

\* The buffer of the GIF scenario: "GIF89a", 320 and 240 as little-endian
\* uint16 at offsets 6 and 8, packed byte 0x91 at offset 10.
GifScenario ==
    /\ Analyzed("gif")
    /\ Len(buffer) >= 11
    /\ SubSeq(buffer, 1, 11) = <<71, 73, 70, 56, 57, 97, 64, 1, 240, 0, 145>>

\* C7 as stated: the scenario yields version "89a", 320 x 240, a global
\* color table, colorResolution 1 and colorTableSize 4.
C7_Original ==
    GifScenario =>
        /\ record.Version = <<56, 57, 97>>
        /\ record.Width = Num(320) /\ record.Height = Num(240)
        /\ record.GlobalColorTable = TRUE
        /\ record.ColorResolution = 1
        /\ record.ColorTableSize = 4

\* C7 amended: the scenario yields version "89a", 320 x 240, a global
\* color table, colorResolution 2 (bits 6-4 of 0x91 are 001) and
\* colorTableSize 4.
C7_GifScenario ==
    GifScenario =>
        /\ record.Version = <<56, 57, 97>>
        /\ record.Width = Num(320) /\ record.Height = Num(240)
        /\ record.GlobalColorTable = TRUE
        /\ record.ColorResolution = 2
        /\ record.ColorTableSize = 4

C7_Witness == GifScenario /\ "ColorResolution" \in ParsedKeys

\* The fields of the PNG header whose bytes lie inside a buffer of n bytes.
PngFieldsWithin(n) ==
    {k \in {"Width"} : n >= 20} \cup {k \in {"Height"} : n >= 24}
    \cup {k \in {"BitDepth"} : n >= 25} \cup {k \in {"ColorType"} : n >= 26}

C9_CapturedKept ==
    Analyzed("jpeg") /\ threw =>
        /\ "error" \notin Keys(record)
        /\ \A k \in Keys(captured) : k \in Keys(record) /\ record[k] = captured[k]

C9_Witness ==
    /\ Analyzed("jpeg") /\ threw
    /\ iterations >= 2
    /\ "error" \notin Keys(record)

\* C10: every iteration of the marker walk ends the walk or moves the
\* offset forward: by 2 plus the declared length past an APP1 segment that
\* is not Exif, by 2 plus the declared length (when there is room to read
\* it) past another marker, by 1 past a byte that is not 0xFF; and the walk
\* runs at most length - 2 iterations.
C10_WalkAdvances ==
    [][pc = "walk" =>
          /\ iterations' <= Len(buffer) - 2
          /\ \/ pc' = "done"
             \/ /\ pc' = "walk"
                /\ offset' > offset
                /\ iterations' = iterations + 1
                /\ offset' =
                     IF buffer[offset + 1] # 255 THEN offset + 1
                     ELSE IF buffer[offset + 2] = 225
                          THEN offset + 2 + 256 * buffer[offset + 3] + buffer[offset + 4]
                     ELSE IF offset + 4 <= Len(buffer)
                          THEN offset + 2 + 256 * buffer[offset + 3] + buffer[offset + 4]
                          ELSE offset + 2]_vars

\* A segment of declared length 0 was skipped and the walk went on to its end.
C10_Witness ==
    /\ Analyzed("jpeg")
    /\ buffer = <<255, 216, 255, 225, 0, 0>>
    /\ iterations = 2
    /\ ~threw
====
